---------------------------- MODULE Spec2Model ----------------------------
(* A model of commoncrawl.py: the index lister (get_all_indexes), the      *)
(* per-index query (query_cdx) and the fan-out/fan-in dispatcher of main.  *)
(*                                                                         *)
(* Strings are sequences of one-character strings, so that split("-"),     *)
(* the [:4] slice and int() are computed as the code computes them.  URLs  *)
(* are small naturals standing for URL strings in lexicographic order.     *)
EXTENDS Integers, Sequences, FiniteSets, TLC

VARIABLES
    pc,            \* position of the main thread
    after,         \* args.after  (None or an int)
    before,        \* args.before (None or an int)
    concurrency,   \* args.concurrency
    meta_requests, \* number of GETs of collinfo.json issued
    collinfo,      \* body of the collinfo.json response (None before it)
    all_indexes,   \* main: all_indexes
    resp,          \* query_cdx called on its own: the HTTP response
    ret,           \* query_cdx called on its own: what the call produced
    fut,           \* per index position: the call / future of query_cdx
    queue,         \* ThreadPoolExecutor work queue (positions, FIFO)
    requests,      \* per index position: number of GETs issued
    warned,        \* index positions whose "Attempt n failed" was printed
    i,             \* sequential loop / submit loop: next index position
    index,         \* pooled loop: futures[future] being handled (0: none)
    urls,          \* main: local urls
    handled,       \* futures already yielded by as_completed
    url_lock,      \* url_lock is held
    total_urls,    \* main: total_urls
    summary,       \* the printed "Total unique URLs" count (None before)
    printed,       \* the URL lines printed after the summary
    out_file       \* lines of the output file

vars == <<pc, after, before, concurrency, meta_requests, collinfo,
          all_indexes, resp, ret, fut, queue, requests, warned, i, index,
          urls, handled, url_lock, total_urls, summary, printed, out_file>>

listerVars == <<after, before, meta_requests, collinfo>>
queryVars == <<resp, ret>>
poolVars == <<fut, queue, requests, warned, i, index, urls, handled,
              url_lock, total_urls>>
outVars == <<summary, printed, out_file>>

\* An Optional[int] is <<>> (None) or <<n>>
None == <<>>
Some(n) == <<n>>

-----------------------------------------------------------------------------
(* Bounds of the model *)

\* longest catalog served by collinfo.json
MaxCatalog == 4
\* most lines in a response body given to query_cdx on its own
MaxLines == 3
\* most indexes handed to the dispatcher
MaxIndexes == 3
\* largest --concurrency (the claims are about concurrency >= 1)
MaxConc == 3

\* range(1) of the attempt loop
Attempts == 1

-----------------------------------------------------------------------------
(* Sequences *)

Range(s) == {s[k] : k \in 1..Len(s)}

\* all sequences over S of length at most n
SeqsUpTo(S, n) == UNION {[1..k -> S] : k \in 0..n}

Injective(s) == \A a, b \in 1..Len(s) : a # b => s[a] # s[b]

\* s[:n]
Slice(s, n) == SubSeq(s, 1, IF Len(s) < n THEN Len(s) ELSE n)

-----------------------------------------------------------------------------
(* Strings: str.split, int() *)

RECURSIVE SplitFrom(_, _, _, _)
SplitFrom(s, sep, k, cur) ==
    IF k > Len(s) THEN <<cur>>
    ELSE IF s[k] = sep THEN <<cur>> \o SplitFrom(s, sep, k + 1, <<>>)
    ELSE SplitFrom(s, sep, k + 1, Append(cur, s[k]))

\* s.split(sep)
Split(s, sep) == SplitFrom(s, sep, 1, <<>>)

Digits == <<"0", "1", "2", "3", "4", "5", "6", "7", "8", "9">>

IsDigit(c) == \E d \in 1..10 : Digits[d] = c

DigitVal(c) == (CHOOSE d \in 1..10 : Digits[d] = c) - 1

RECURSIVE IntVal(_)
IntVal(s) ==
    IF s = <<>> THEN 0
    ELSE 10 * IntVal(SubSeq(s, 1, Len(s) - 1)) + DigitVal(s[Len(s)])

\* int(s) raises ValueError on the empty string and on a non-digit (the
\* alphabet of the model has no sign, blank or underscore)
IntFails(s) == s = <<>> \/ \E k \in 1..Len(s) : ~IsDigit(s[k])

-----------------------------------------------------------------------------
(* get_all_indexes *)

CCMAIN == <<"C", "C", "-", "M", "A", "I", "N">>

\* CC-MAIN-2021-04, CC-MAIN-2022-05, CC-MAIN-2023-06, CC-MAIN-2024-10
Id2021 == CCMAIN \o <<"-", "2", "0", "2", "1", "-", "0", "4">>
Id2022 == CCMAIN \o <<"-", "2", "0", "2", "2", "-", "0", "5">>
Id2023 == CCMAIN \o <<"-", "2", "0", "2", "3", "-", "0", "6">>
Id2024 == CCMAIN \o <<"-", "2", "0", "2", "4", "-", "1", "0">>
\* CC-MAIN: no third token (IndexError)
IdShort == CCMAIN
\* CC-MAIN-x024-10: the third token is no number (ValueError)
IdWord == CCMAIN \o <<"-", "x", "0", "2", "4", "-", "1", "0">>

IdPool == {Id2021, Id2022, Id2023, Id2024, IdShort, IdWord}

\* an entry of the catalog: a JSON object with or without the "id" field
Entry(id) == [has_id |-> TRUE, id |-> id]
EntryNoId == [has_id |-> FALSE, id |-> <<>>]
EntryPool == {Entry(id) : id \in IdPool} \cup {EntryNoId}

Catalogs == {c \in SeqsUpTo(EntryPool, MaxCatalog) : Injective(c)}

\* what requests.get(collinfo.json) / raise_for_status / resp.json() gives
MetaFailures == {"timeout", "connection_error", "http_error", "invalid_json"}
MetaResponse(status, entries) == [status |-> status, entries |-> entries]
NoResponse == MetaResponse("none", <<>>)
MetaResponses ==
    {MetaResponse(f, <<>>) : f \in MetaFailures}
        \cup {MetaResponse("ok", c) : c \in Catalogs}

\* Python truth value of an Optional[int]: None and 0 are false
Truthy(x) == x # None /\ x[1] # 0

\* int(index_id.split("-")[2][:4]), or the exception it raises
ParseYear(index_id) ==
    LET tokens == Split(index_id, "-")
    IN IF Len(tokens) < 3 THEN [exc |-> "IndexError", year |-> 0]
       ELSE LET t == Slice(tokens[3], 4)
            IN IF IntFails(t) THEN [exc |-> "ValueError", year |-> 0]
               ELSE [exc |-> "none", year |-> IntVal(t)]

\* (mutant) the year is looked at only when a bound is given
RetainedUnparsedWhenUnfiltered(index_id, a, b) ==
    \/ a = None /\ b = None
    \/ LET p == ParseYear(index_id)
       IN /\ p.exc = "none"
          /\ ~(Truthy(a) /\ p.year < a[1])
          /\ ~(Truthy(b) /\ p.year >= b[1])

\* one pass of the loop body: TRUE iff index_id is appended to filtered
Retained(index_id, a, b) ==
    LET p == ParseYear(index_id)
    IN /\ p.exc = "none"
       /\ ~(Truthy(a) /\ p.year < a[1])
       /\ ~(Truthy(b) /\ p.year >= b[1])

RECURSIVE FilterFrom(_, _, _, _)
FilterFrom(ids, k, a, b) ==
    IF k > Len(ids) THEN <<>>
    ELSE (IF Retained(ids[k], a, b) THEN <<ids[k]>> ELSE <<>>)
             \o FilterFrom(ids, k + 1, a, b)

\* the loop over all_indexes of get_all_indexes
Filtered(ids, a, b) == FilterFrom(ids, 1, a, b)

\* [entry["id"] for entry in resp.json()] raises KeyError on an entry
\* without "id"
HasKeyError(entries) == \E k \in 1..Len(entries) : ~entries[k].has_id

EntryIds(entries) == [k \in 1..Len(entries) |-> entries[k].id]

Afters == {None, Some(0), Some(2022), Some(2023)}
Befores == {None, Some(0), Some(2023), Some(2024)}
Concurrencies == 1..MaxConc

\* main, line 79: all_indexes = get_all_indexes(after, before).  The
\* request is made once.  A RequestException (JSONDecodeError of
\* resp.json() included) is caught and [] returned; a KeyError is not
\* caught and ends main with a traceback.
GetAllIndexes ==
    /\ pc = "start"
    /\ \E r \in MetaResponses :
          /\ collinfo' = r
          /\ meta_requests' = meta_requests + 1
          /\ IF r.status # "ok"
             THEN pc' = "listed" /\ all_indexes' = <<>>
             ELSE IF HasKeyError(r.entries)
             THEN pc' = "crashed" /\ all_indexes' = all_indexes
             ELSE /\ pc' = "listed"
                  /\ all_indexes' = Filtered(EntryIds(r.entries), after, before)
    /\ UNCHANGED <<after, before, concurrency, queryVars, poolVars, outVars>>

\* main, lines 80-82: no index, "No indexes available", return
MainNoIndexes ==
    /\ pc = "listed"
    /\ all_indexes = <<>>
    /\ pc' = "exit"
    /\ UNCHANGED <<listerVars, concurrency, all_indexes, queryVars, poolVars,
                   outVars>>

\* main, line 84: "n matching indexes selected"
MainSelected ==
    /\ pc = "listed"
    /\ all_indexes # <<>>
    /\ pc' = "selected"
    /\ UNCHANGED <<listerVars, concurrency, all_indexes, queryVars, poolVars,
                   outVars>>

-----------------------------------------------------------------------------
(* query_cdx *)

Urls == {1, 2}

\* a line of a response body: a JSON object with "url", a JSON object
\* without it, text that is no JSON, or a blank line
Record(u) == [kind |-> "record", url |-> u]
NoUrlLine == [kind |-> "nourl", url |-> 0]
GarbageLine == [kind |-> "garbage", url |-> 0]
BlankLine == [kind |-> "blank", url |-> 0]
LinePool == {Record(u) : u \in Urls} \cup {NoUrlLine, GarbageLine, BlankLine}

\* what requests.get / raise_for_status give: a 2xx body or a
\* RequestException (timeout, connection error, HTTPError)
QueryFailures == {"timeout", "connection_error", "http_error"}
Response(status, text) == [status |-> status, text |-> text]
NoCall == Response("none", <<>>)
ResponsesUpTo(n) ==
    {Response(f, <<>>) : f \in QueryFailures}
        \cup {Response("ok", t) : t \in SeqsUpTo(LinePool, n)}

RECURSIVE LStrip(_)
LStrip(t) ==
    IF t # <<>> /\ t[1].kind = "blank" THEN LStrip(Tail(t)) ELSE t

RECURSIVE RStrip(_)
RStrip(t) ==
    IF t # <<>> /\ t[Len(t)].kind = "blank"
    THEN RStrip(SubSeq(t, 1, Len(t) - 1))
    ELSE t

\* resp.text.strip().split("\n"): the blank lines at both ends go, and
\* the empty text splits into one empty line
StripSplit(t) ==
    LET body == RStrip(LStrip(t))
    IN IF body = <<>> THEN <<BlankLine>> ELSE body

\* json.loads(line) raises JSONDecodeError
JSONDecodeError(line) == line.kind \in {"garbage", "blank"}

\* record["url"] raises KeyError
KeyError(line) == line.kind = "nourl"

\* (mutant) a line that is no JSON ends the loop
RECURSIVE ParseFromBreaking(_, _, _)
ParseFromBreaking(lines, k, acc) ==
    IF k > Len(lines) THEN [kind |-> "return", urls |-> acc]
    ELSE IF lines[k].kind \in {"garbage", "blank"}
    THEN [kind |-> "return", urls |-> acc]
    ELSE IF lines[k].kind = "nourl" THEN [kind |-> "KeyError", urls |-> <<>>]
    ELSE ParseFromBreaking(lines, k + 1, Append(acc, lines[k].url))

\* the loop over the lines, from line k on with urls so far: a line that
\* is no JSON is passed over, a KeyError leaves the loop and the function
RECURSIVE ParseFrom(_, _, _)
ParseFrom(lines, k, acc) ==
    IF k > Len(lines) THEN [kind |-> "return", urls |-> acc]
    ELSE IF JSONDecodeError(lines[k]) THEN ParseFrom(lines, k + 1, acc)
    ELSE IF KeyError(lines[k]) THEN [kind |-> "KeyError", urls |-> <<>>]
    ELSE ParseFrom(lines, k + 1, Append(acc, lines[k].url))

ParseLines(lines) == ParseFrom(lines, 1, <<>>)

Result(kind, us, warn, att) ==
    [kind |-> kind, urls |-> us, warned |-> warn, attempts |-> att]
NoResult == Result("none", <<>>, FALSE, 0)

\* query_cdx(domain, index_id) when the server answers r: the list it
\* returns or the exception it raises, whether the warning was printed,
\* and the number of requests made.  A RequestException is caught, the
\* warning printed, and the attempt loop goes on to its end.
QueryCdx(r) ==
    IF r.status # "ok" THEN Result("return", <<>>, TRUE, Attempts)
    ELSE LET p == ParseLines(StripSplit(r.text))
         IN Result(p.kind, p.urls, FALSE, 1)

\* query_cdx called on its own
CallQueryCdx ==
    /\ pc = "call"
    /\ ret' = QueryCdx(resp)
    /\ pc' = IF ret'.kind = "KeyError" THEN "raised" ELSE "returned"
    /\ UNCHANGED <<listerVars, concurrency, all_indexes, resp, poolVars,
                   outVars>>

-----------------------------------------------------------------------------
(* main: the dispatcher *)

\* the call of query_cdx for one index: not made yet, waiting in the
\* executor's queue, running, or done with what it returned or raised
Future(st, kind, us) == [st |-> st, kind |-> kind, urls |-> us]
Queued == Future("queued", "none", <<>>)
Running == Future("running", "none", <<>>)

NumIndexes == Len(all_indexes)

InFlight == {k \in 1..Len(fut) : fut[k].st = "running"}

\* the responses served to the dispatcher: a failure or a body of at most
\* one line (bodies of more lines are parsed under SpecQuery)
ResponsesServed == ResponsesUpTo(1)

RECURSIVE Sorted(_)
Sorted(S) ==
    IF S = {} THEN <<>>
    ELSE LET m == CHOOSE x \in S : \A y \in S : x <= y
         IN <<m>> \o Sorted(S \ {m})

\* list(set(l)): the elements of l once each, in an order Python chooses
ListOfSet(l) ==
    {s \in [1..Cardinality(Range(l)) -> Range(l)] : Injective(s)}

\* (mutant) the list is assigned, not extended
Overwrite(total, us) == us

\* total_urls.extend(urls)
Extend(total, us) == total \o us

\* main, lines 85-89: total_urls = [], url_lock = Lock(), the branch
MainDispatch ==
    /\ pc = "selected"
    /\ total_urls' = <<>>
    /\ url_lock' = FALSE
    /\ pc' = IF concurrency = 1 THEN "seq" ELSE "submit"
    /\ UNCHANGED <<listerVars, concurrency, all_indexes, queryVars, fut,
                   queue, requests, warned, i, index, urls, handled, outVars>>

\* main, lines 90-91: the next index of the loop, query_cdx is called
SeqCall ==
    /\ pc = "seq"
    /\ i <= NumIndexes
    /\ fut' = Append(fut, Running)
    /\ requests' = Append(requests, 0)
    /\ pc' = "seq_wait"
    /\ UNCHANGED <<listerVars, concurrency, all_indexes, queryVars, queue,
                   warned, i, index, urls, handled, url_lock, total_urls,
                   outVars>>

\* main, lines 91-93: query_cdx returns and its list is added, or it
\* raises and main ends with the traceback
SeqReturn ==
    /\ pc = "seq_wait"
    /\ \E r \in ResponsesServed :
          LET q == QueryCdx(r)
          IN /\ fut' = [fut EXCEPT ![i] = Future("done", q.kind, q.urls)]
             /\ requests' = [requests EXCEPT ![i] = @ + q.attempts]
             /\ warned' = IF q.warned THEN warned \cup {i} ELSE warned
             /\ IF q.kind = "KeyError"
                THEN /\ pc' = "crashed"
                     /\ UNCHANGED <<urls, total_urls, i>>
                ELSE /\ urls' = q.urls
                     /\ total_urls' = Extend(total_urls, q.urls)
                     /\ i' = i + 1
                     /\ pc' = "seq"
    /\ UNCHANGED <<listerVars, concurrency, all_indexes, queryVars, queue,
                   index, handled, url_lock, outVars>>

\* main, line 96: executor.submit(query_cdx, args.url, index), in
\* listing order; after the last one as_completed is entered
Submit ==
    /\ pc = "submit"
    /\ i <= NumIndexes
    /\ fut' = Append(fut, Queued)
    /\ requests' = Append(requests, 0)
    /\ queue' = Append(queue, i)
    /\ i' = i + 1
    /\ pc' = IF i = NumIndexes THEN "collect" ELSE "submit"
    /\ UNCHANGED <<listerVars, concurrency, all_indexes, queryVars, warned,
                   index, urls, handled, url_lock, total_urls, outVars>>

\* (mutant) a thread per work item
WorkerPerItem == TRUE

\* ThreadPoolExecutor(max_workers=args.concurrency): a worker thread is
\* free or can still be created
WorkerAvailable == Cardinality(InFlight) < concurrency

\* a worker thread takes the oldest work item and calls query_cdx
WorkerStart ==
    /\ queue # <<>>
    /\ WorkerAvailable
    /\ fut' = [fut EXCEPT ![Head(queue)] = Running]
    /\ queue' = Tail(queue)
    /\ UNCHANGED <<pc, listerVars, concurrency, all_indexes, queryVars,
                   requests, warned, i, index, urls, handled, url_lock,
                   total_urls, outVars>>

\* query_cdx ends in a worker thread: the future holds its list or
\* its exception
WorkerFinish(k) ==
    /\ pc \in {"submit", "collect", "acquire", "extend", "release"}
    /\ k \in InFlight
    /\ \E r \in ResponsesServed :
          LET q == QueryCdx(r)
          IN /\ fut' = [fut EXCEPT ![k] = Future("done", q.kind, q.urls)]
             /\ requests' = [requests EXCEPT ![k] = @ + q.attempts]
             /\ warned' = IF q.warned THEN warned \cup {k} ELSE warned
    /\ UNCHANGED <<pc, listerVars, concurrency, all_indexes, queryVars,
                   queue, i, index, urls, handled, url_lock, total_urls,
                   outVars>>

\* main, lines 97-101 and 104-105: as_completed yields a finished
\* future; future.result() gives its list, or raises what query_cdx raised
\* and "crashed" is printed
PoolResult(k) ==
    /\ pc = "collect"
    /\ k \in 1..Len(fut)
    /\ k \notin handled
    /\ fut[k].st = "done"
    /\ index' = k
    /\ handled' = handled \cup {k}
    /\ IF fut[k].kind = "KeyError"
       THEN pc' = "collect" /\ urls' = urls
       ELSE pc' = "acquire" /\ urls' = fut[k].urls
    /\ UNCHANGED <<listerVars, concurrency, all_indexes, queryVars, fut,
                   queue, requests, warned, i, url_lock, total_urls, outVars>>

\* (mutant) the list is extended without the lock
PoolSkipLock ==
    /\ pc = "acquire"
    /\ pc' = "extend"
    /\ UNCHANGED <<listerVars, concurrency, all_indexes, queryVars, fut,
                   queue, requests, warned, i, index, urls, handled,
                   url_lock, total_urls, outVars>>

\* main, line 102: with url_lock (entered)
PoolAcquire ==
    /\ pc = "acquire"
    /\ ~url_lock
    /\ url_lock' = TRUE
    /\ pc' = "extend"
    /\ UNCHANGED <<listerVars, concurrency, all_indexes, queryVars, fut,
                   queue, requests, warned, i, index, urls, handled,
                   total_urls, outVars>>

\* main, line 103
PoolExtend ==
    /\ pc = "extend"
    /\ total_urls' = Extend(total_urls, urls)
    /\ pc' = "release"
    /\ UNCHANGED <<listerVars, concurrency, all_indexes, queryVars, fut,
                   queue, requests, warned, i, index, urls, handled,
                   url_lock, outVars>>

\* main, line 102: with url_lock (left)
PoolRelease ==
    /\ pc = "release"
    /\ url_lock' = FALSE
    /\ pc' = "collect"
    /\ UNCHANGED <<listerVars, concurrency, all_indexes, queryVars, fut,
                   queue, requests, warned, i, index, urls, handled,
                   total_urls, outVars>>

\* either loop is over: every index was queried and handled
LoopsOver ==
    \/ pc = "seq" /\ i > NumIndexes
    \/ pc = "collect" /\ handled = 1..NumIndexes

\* main, lines 107-111: the duplicates go, the summary and the sorted
\* URLs are printed
Summarize ==
    /\ LoopsOver
    /\ total_urls' \in ListOfSet(total_urls)
    /\ summary' = Some(Len(total_urls'))
    /\ printed' = Sorted(Range(total_urls'))
    /\ pc' = "summarized"
    /\ UNCHANGED <<listerVars, concurrency, all_indexes, queryVars, fut,
                   queue, requests, warned, i, index, urls, handled,
                   url_lock, out_file>>

\* main, lines 113-123: with --output the sorted URLs are written to the
\* file, after its content with --append
WriteOutput ==
    /\ pc = "summarized"
    /\ \E output, append \in BOOLEAN :
          out_file' = IF ~output THEN out_file
                      ELSE IF append THEN out_file \o Sorted(Range(total_urls))
                      ELSE Sorted(Range(total_urls))
    /\ pc' = "done"
    /\ UNCHANGED <<listerVars, concurrency, all_indexes, queryVars, poolVars,
                   summary, printed>>

-----------------------------------------------------------------------------
(* Specifications *)

NoPool ==
    /\ fut = <<>>
    /\ queue = <<>>
    /\ requests = <<>>
    /\ warned = {}
    /\ i = 1
    /\ index = 0
    /\ urls = <<>>
    /\ handled = {}
    /\ url_lock = FALSE
    /\ total_urls = <<>>
    /\ summary = None
    /\ printed = <<>>
    /\ out_file = <<>>

\* the state of main before get_all_indexes is called
InitLister ==
    /\ pc = "start"
    /\ after \in Afters
    /\ before \in Befores
    /\ concurrency \in Concurrencies
    /\ meta_requests = 0
    /\ collinfo = NoResponse
    /\ all_indexes = <<>>
    /\ resp = NoCall
    /\ ret = NoResult
    /\ NoPool

NextLister == GetAllIndexes \/ MainNoIndexes \/ MainSelected

SpecLister == InitLister /\ [][NextLister]_vars

\* a call of query_cdx and the response the server gives it
InitQuery ==
    /\ pc = "call"
    /\ after = None
    /\ before = None
    /\ concurrency = 1
    /\ meta_requests = 0
    /\ collinfo = NoResponse
    /\ all_indexes = <<>>
    /\ resp \in ResponsesUpTo(MaxLines)
    /\ ret = NoResult
    /\ NoPool

NextQuery == CallQueryCdx

SpecQuery == InitQuery /\ [][NextQuery]_vars

\* the indexes main hands to the dispatcher: CC-MAIN-2021-04, ...
IndexList == <<Id2021, Id2022, Id2023, Id2024, IdShort \o <<"-", "2", "0">>>>

\* the state of main at line 84, with the list get_all_indexes returned
InitDispatch ==
    /\ pc = "selected"
    /\ after = None
    /\ before = None
    /\ concurrency \in Concurrencies
    /\ meta_requests = 1
    /\ all_indexes \in {SubSeq(IndexList, 1, n) : n \in 1..MaxIndexes}
    /\ collinfo = MetaResponse("ok", [k \in 1..Len(all_indexes) |-> Entry(all_indexes[k])])
    /\ resp = NoCall
    /\ ret = NoResult
    /\ NoPool

Next ==
    \/ MainDispatch
    \/ SeqCall
    \/ SeqReturn
    \/ Submit
    \/ WorkerStart
    \/ \E k \in 1..MaxIndexes : WorkerFinish(k)
    \/ \E k \in 1..MaxIndexes : PoolResult(k)
    \/ PoolAcquire
    \/ PoolExtend
    \/ PoolRelease
    \/ Summarize
    \/ WriteOutput

Spec == InitDispatch /\ [][Next]_vars

-----------------------------------------------------------------------------
(* Properties of the dispatcher (Spec) *)

\* the indexes whose query_cdx returned a list
Returned == {k \in 1..Len(fut) : fut[k].st = "done" /\ fut[k].kind = "return"}

\* the union of the URL lists of the indexes whose request succeeded
UnionOfLists == UNION {Range(fut[k].urls) : k \in Returned \ warned}

\* C1: once the loops are over and the duplicates removed, total_urls holds
\* exactly the union of the URL lists of the indexes that answered, each URL
\* once, and the summary and the printed lines are those of that set; the
\* value depends on the per-index outcomes only, not on concurrency or on
\* the order in which the queries ended.
C1_FinalIsUnionOfLists ==
    pc \in {"summarized", "done"} =>
        /\ Range(total_urls) = UnionOfLists
        /\ Injective(total_urls)
        /\ summary = Some(Cardinality(UnionOfLists))
        /\ printed = Sorted(UnionOfLists)

\* a pooled run over three indexes, two with the same URL and one failed
C1_Witness ==
    /\ pc = "done"
    /\ concurrency = 2
    /\ NumIndexes = 3
    /\ warned = {2}
    /\ fut[1].urls = <<1>>
    /\ fut[3].urls = <<1>>
    /\ total_urls = <<1>>

\* the run is over: main has returned or ended with a traceback
RunOver == pc \in {"done", "crashed"}

\* C2: when the request of an index failed with a network error, that index
\* gave no URL, and at the end of the run every other index has been queried
\* and all of its URLs are in the result.
C2_FailureLeavesOthers ==
    \A f \in warned :
        /\ fut[f].urls = <<>>
        /\ RunOver =>
              \A j \in (1..NumIndexes) \ {f} :
                  /\ j <= Len(fut)
                  /\ fut[j].st = "done"
                  /\ requests[j] >= 1
                  /\ pc = "done"
                  /\ Range(fut[j].urls) \subseteq Range(total_urls)

\* C8: the queries in flight never outnumber concurrency, and with
\* concurrency = 1 a query starts only after every query of an earlier
\* position has returned, in listing order.
C8_InFlightBounded ==
    /\ Cardinality(InFlight) <= concurrency
    /\ concurrency = 1 =>
          /\ Len(fut) \in {i - 1, i}
          /\ \A k \in 1..Len(fut) : k < Len(fut) => fut[k].st = "done"

\* both workers of a pool of two are busy and a third query waits
C8_Witness ==
    /\ concurrency = 2
    /\ Cardinality(InFlight) = 2
    /\ queue # <<>>

\* C9: a run over a non-empty index list ends only after the summary was
\* printed, and when the summary is printed exactly one request has been
\* made for every listed index.
C9_SummaryReached ==
    /\ NumIndexes > 0 /\ ~ENABLED Next => summary # None
    /\ summary # None => \A k \in 1..NumIndexes : k <= Len(requests) /\ requests[k] = 1

Count(s, u) == Cardinality({j \in 1..Len(s) : s[j] = u})

RECURSIVE CountHandled(_, _)
CountHandled(S, u) ==
    IF S = {} THEN 0
    ELSE LET k == CHOOSE x \in S : TRUE
         IN Count(fut[k].urls, u) + CountHandled(S \ {k}, u)

\* C10: in the pooled path total_urls grows only in a step taken with
\* url_lock held, a step of a worker thread changes neither total_urls nor
\* the lock, and between two futures total_urls holds every URL of every
\* handled future as often as the futures returned it.
C10_ExtendedUnderLock ==
    /\ [][concurrency # 1 =>
            /\ Len(total_urls') > Len(total_urls) => url_lock /\ url_lock'
            /\ fut' # fut => total_urls' = total_urls /\ url_lock' = url_lock]_vars
    /\ [](concurrency # 1 /\ pc = "collect" =>
            \A u \in Urls : Count(total_urls, u) = CountHandled(handled \cap Returned, u))

\* main holds the lock with a list extended while a worker is in a query
C10_Witness ==
    /\ concurrency # 1
    /\ pc = "release"
    /\ url_lock
    /\ total_urls # <<>>
    /\ InFlight # {}

-----------------------------------------------------------------------------
(* Properties of query_cdx (SpecQuery) *)

\* the URLs of the lines that are JSON objects with "url", in order
RECURSIVE UrlsOf(_)
UrlsOf(text) ==
    IF text = <<>> THEN <<>>
    ELSE (IF text[1].kind = "record" THEN <<text[1].url>> ELSE <<>>)
             \o UrlsOf(Tail(text))

AllLinesHaveUrlOrAreNoJson ==
    \A k \in 1..Len(resp.text) : resp.text[k].kind # "nourl"

\* C3: a line that is JSON without "url" is dropped alone: query_cdx still
\* returns the URLs of the other lines of the response.
C3_LineWithoutUrlSkipped ==
    pc # "call" /\ resp.status = "ok" =>
        ret.kind = "return" /\ ret.urls = UrlsOf(resp.text)

\* C4: on a body whose lines are records with a URL or no JSON at all (the
\* empty body included), query_cdx returns, and what it returns is the URLs
\* of the records in order: the lines that are no JSON leave no trace and
\* end nothing.
C4_InvalidLinesSkipped ==
    pc # "call" /\ resp.status = "ok" =>
        /\ AllLinesHaveUrlOrAreNoJson => ret.kind = "return"
        /\ ret.kind = "return" => ret.urls = UrlsOf(resp.text)

\* a line that is no JSON between two records
C4_Witness ==
    /\ pc = "returned"
    /\ resp.text = <<Record(1), GarbageLine, Record(2)>>
    /\ ret.urls = <<1, 2>>

-----------------------------------------------------------------------------
(* Properties of get_all_indexes (SpecLister) *)

\* get_all_indexes has returned the filtered catalog
Listed == pc \in {"listed", "exit", "selected"} /\ collinfo.status = "ok"

Catalog == EntryIds(collinfo.entries)

UnparsableIds == {IdShort, IdWord}

YearOf(id) ==
    CASE id = Id2021 -> 2021
      [] id = Id2022 -> 2022
      [] id = Id2023 -> 2023
      [] id = Id2024 -> 2024

NoFilter == after = None /\ before = None

\* C5 as stated: an identifier without a year is kept when neither bound is
\* given and dropped when one is.
C5_UnparsableKeptWhenUnfiltered ==
    Listed =>
        \A k \in 1..Len(Catalog) :
            Catalog[k] \in UnparsableIds =>
                (Catalog[k] \in Range(all_indexes) <=> NoFilter)

\* C5, amended: an identifier without a year is never in the list
\* get_all_indexes returns, whether a bound is given or not.
C5_UnparsableAlwaysDropped ==
    Listed =>
        \A k \in 1..Len(Catalog) :
            Catalog[k] \in UnparsableIds => Catalog[k] \notin Range(all_indexes)

\* no bound given, a catalog with an identifier without a year and one
\* with a year, and only the latter returned
C5_Witness ==
    /\ Listed
    /\ NoFilter
    /\ Catalog = <<IdWord, Id2021, IdShort>>
    /\ all_indexes = <<Id2021>>

\* yearAfter <= year < yearBefore, an absent bound being unbounded
InYearRange(id) ==
    /\ after = None \/ after[1] <= YearOf(id)
    /\ before = None \/ YearOf(id) < before[1]

\* C6: of the entries with a year, get_all_indexes returns those with
\* yearAfter <= year < yearBefore and no other, in catalog order.
C6_YearRangeFilter ==
    Listed =>
        all_indexes = SelectSeq(SelectSeq(Catalog, LAMBDA id : id \notin UnparsableIds),
                                InYearRange)

\* the catalog could not be had: no answer, a status that is no 2xx, a
\* body that is no JSON, or an entry without "id"
BadCatalog ==
    \/ collinfo.status \in MetaFailures
    \/ collinfo.status = "ok" /\ \E k \in 1..Len(collinfo.entries) : ~collinfo.entries[k].has_id

\* C7: after a catalog that could not be had, get_all_indexes has returned
\* the empty list from a single request and main returns with no query
\* made, no URL and no file written.
C7_BadCatalogEndsRun ==
    pc # "start" /\ BadCatalog =>
        /\ pc \in {"listed", "exit"}
        /\ all_indexes = <<>>
        /\ meta_requests = 1
        /\ fut = <<>>
        /\ total_urls = <<>>
        /\ out_file = <<>>

=============================================================================
